---- MODULE Spec2Model ----
(***************************************************************************)
(* Model of the Apple signed-envelope package: the process-wide key        *)
(* directory (AppleJWKs / FetchAppleJWKs), key reconstruction              *)
(* (GetAppleRSAPublicKey), the three verification entry points (VerifyJWT, *)
(* VerifyJWSTransaction, VerifyJWSRenewalInfo) and the issuer              *)
(* (GenerateAuthorizationJWT).  Goroutines calling the entry points are    *)
(* the processes; every shared-memory access of FetchAppleJWKs is a step.  *)
(***************************************************************************)
EXTENDS Integers, Sequences, FiniteSets, TLC

(***************************************************************************)
(* Bounds of the model.                                                    *)
(***************************************************************************)
\* goroutines that call a verification entry point
NumProcs == 2
Procs == 1..NumProcs

\* An optional value: <<>> is absent, <<v>> is present.
None == <<>>
Some(v) == <<v>>
IsSome(o) == Len(o) = 1
Get(o) == o[1]

(***************************************************************************)
(* encoding/base64 RawURLEncoding.DecodeString.  A text is a sequence of   *)
(* alphabet indices 0..63; any other number stands for a byte outside the  *)
(* alphabet.  Lengths 4k+1 are corrupt; trailing bits are not checked      *)
(* (the encoding is not Strict).                                           *)
(***************************************************************************)
RECURSIVE DecodeQuanta(_)
DecodeQuanta(s) ==
    IF Len(s) = 0 THEN <<>>
    ELSE IF Len(s) = 2
         THEN << (s[1] * 4 + (s[2] \div 16)) % 256 >>
    ELSE IF Len(s) = 3
         THEN << (s[1] * 4 + (s[2] \div 16)) % 256,
                 ((s[2] % 16) * 16 + (s[3] \div 4)) % 256 >>
    ELSE << (s[1] * 4 + (s[2] \div 16)) % 256,
            ((s[2] % 16) * 16 + (s[3] \div 4)) % 256,
            ((s[3] % 4) * 64 + s[4]) % 256 >>
         \o DecodeQuanta(SubSeq(s, 5, Len(s)))

RawURLDecode(s) ==
    IF \E i \in 1..Len(s) : s[i] \notin 0..63
    THEN [ok |-> FALSE, bytes |-> <<>>]
    ELSE IF Len(s) % 4 = 1
    THEN [ok |-> FALSE, bytes |-> <<>>]
    ELSE [ok |-> TRUE, bytes |-> DecodeQuanta(s)]

\* big.Int.SetBytes: the big-endian unsigned value of a byte string
RECURSIVE SetBytes(_)
SetBytes(b) ==
    IF Len(b) = 0 THEN 0
    ELSE SetBytes(SubSeq(b, 1, Len(b) - 1)) * 256 + b[Len(b)]

(***************************************************************************)
(* GetAppleRSAPublicKey (public_key.go).  keys is jwk.Keys.                *)
(***************************************************************************)
\* mutant: the three bytes are taken least significant first
ExponentInt_LittleEndian(eBytes) ==
    IF Len(eBytes) = 3
    THEN [ok |-> TRUE, e |-> eBytes[3] * 65536 + eBytes[2] * 256 + eBytes[1]]
    ELSE IF Len(eBytes) = 1
    THEN [ok |-> TRUE, e |-> eBytes[1]]
    ELSE [ok |-> FALSE, e |-> 0]

\* the exponent conversion of lines 61-68
ExponentInt(eBytes) ==
    IF Len(eBytes) = 3
    THEN [ok |-> TRUE, e |-> eBytes[1] * 65536 + eBytes[2] * 256 + eBytes[3]]
    ELSE IF Len(eBytes) = 1
    THEN [ok |-> TRUE, e |-> eBytes[1]]
    ELSE [ok |-> FALSE, e |-> 0]

NoKey == [kty |-> "nil", N |-> 0, E |-> 0]

\* the body of the loop for the first entry whose Kid matches
KeyFromEntry(key) ==
    LET n == RawURLDecode(key.N)
        e == RawURLDecode(key.E)
        x == ExponentInt(e.bytes)
    IN  IF ~n.ok THEN [err |-> "failed to decode modulus (n)", key |-> NoKey]
        ELSE IF ~e.ok THEN [err |-> "failed to decode exponent (e)", key |-> NoKey]
        ELSE IF ~x.ok THEN [err |-> "unexpected exponent length", key |-> NoKey]
        ELSE [err |-> "", key |-> [kty |-> "RSA", N |-> SetBytes(n.bytes), E |-> x.e]]

\* mutant: no entry matches and the first entry's key is returned
GetAppleRSAPublicKey_FirstKey(keys, kid) ==
    LET hits == {i \in 1..Len(keys) : keys[i].Kid = kid}
    IN  IF hits = {}
        THEN IF Len(keys) = 0
             THEN [err |-> "no matching key found for kid", key |-> NoKey]
             ELSE KeyFromEntry(keys[1])
        ELSE KeyFromEntry(keys[CHOOSE i \in hits : \A j \in hits : i <= j])

GetAppleRSAPublicKey(keys, kid) ==
    LET hits == {i \in 1..Len(keys) : keys[i].Kid = kid}
    IN  IF hits = {}
        THEN [err |-> "no matching key found for kid", key |-> NoKey]
        ELSE KeyFromEntry(keys[CHOOSE i \in hits : \A j \in hits : i <= j])

(***************************************************************************)
(* Compact envelopes.  An envelope is                                      *)
(*   [wf, header |-> [alg, kid], payload, sig]                             *)
(* wf: three segments whose header and payload are base64url JSON objects. *)
(* header.alg is optional; header.kid is [typ, val], typ the JSON type.    *)
(* payload holds the JSON members the package reads, each optional.        *)
(* sig is what was signed and by whom: [signer, alg, hdr, pl].             *)
(***************************************************************************)
\* the signing methods golang-jwt registers, by family
RSAMethods == {"RS256"}
PSSMethods == {"PS256"}
ECDSAMethods == {"ES256"}
HMACMethods == {"HS256"}
RegisteredMethods == RSAMethods \cup PSSMethods \cup ECDSAMethods \cup HMACMethods \cup {"none"}

\* token.SignedString / SigningMethod.Sign: priv is [kty, pub]
Sign(priv, alg, hdr, pl) ==
    [signer |-> priv.pub, alg |-> alg, hdr |-> hdr, pl |-> pl]

\* mutant: the HMAC method takes the bytes of whatever key it is given as its
\* secret
MethodVerify_KeyAsSecret(env, key) ==
    LET alg == Get(env.header.alg)
    IN  IF alg \in RSAMethods \cup PSSMethods
        THEN IF key.kty # "RSA" THEN "key is of invalid type"
             ELSE IF env.sig = Sign([kty |-> "RSA", pub |-> key], alg, env.header, env.payload)
                  THEN ""
                  ELSE "crypto/rsa: verification error"
        ELSE IF alg \in ECDSAMethods
        THEN "key is of invalid type"
        ELSE IF alg \in HMACMethods
        THEN IF env.sig = Sign([kty |-> "HMAC", pub |-> [key EXCEPT !.kty = "HMAC"]],
                               alg, env.header, env.payload)
             THEN ""
             ELSE "signature is invalid"
        ELSE "'none' signature type is not allowed"

\* SigningMethod.Verify as the parser calls it with the key the Keyfunc gave
MethodVerify(env, key) ==
    LET alg == Get(env.header.alg)
    IN  IF alg \in RSAMethods \cup PSSMethods
        THEN IF key.kty # "RSA" THEN "key is of invalid type"
             ELSE IF env.sig = Sign([kty |-> "RSA", pub |-> key], alg, env.header, env.payload)
                  THEN ""
                  ELSE "crypto/rsa: verification error"
        ELSE IF alg \in ECDSAMethods
        THEN IF key.kty # "EC" THEN "key is of invalid type"
             ELSE IF env.sig = Sign([kty |-> "EC", pub |-> key], alg, env.header, env.payload)
                  THEN ""
                  ELSE "crypto/ecdsa: verification error"
        ELSE IF alg \in HMACMethods
        THEN "key is of invalid type"
        ELSE "'none' signature type is not allowed"

(***************************************************************************)
(* Claim shapes: json.Unmarshal of the payload into the target type, and   *)
(* the jwt.Claims accessors of each type.                                  *)
(***************************************************************************)
\* json into jwt.MapClaims: every JSON object decodes
DecodeMapClaims(pl) ==
    [ok |-> TRUE,
     claims |-> [shape |-> "MapClaims", iss |-> pl.iss, aud |-> pl.aud, bid |-> pl.bid,
                 exp |-> pl.exp, nbf |-> pl.nbf, iat |-> pl.iat]]

\* json into SubscriptionInfo (subscription.go 30-51): purchaseDate is a string
DecodeSubscriptionInfo(pl) ==
    IF IsSome(pl.purchaseDate) /\ Get(pl.purchaseDate) # "string"
    THEN [ok |-> FALSE, claims |-> [shape |-> "SubscriptionInfo"]]
    ELSE [ok |-> TRUE,
          claims |-> [shape |-> "SubscriptionInfo",
                      OriginalTransactionID |-> pl.originalTransactionId,
                      SignedTransactionInfo |-> pl.signedTransactionInfo]]

\* json into JWSRenewalInfoDecodedPayload (client.go 136-203): purchaseDate and
\* expiresDate are Timestamp (int64); an absent member leaves the zero value
DecodeRenewalInfo(pl) ==
    IF IsSome(pl.purchaseDate) /\ Get(pl.purchaseDate) # "number"
    THEN [ok |-> FALSE, claims |-> [shape |-> "JWSRenewalInfoDecodedPayload"]]
    ELSE [ok |-> TRUE,
          claims |-> [shape |-> "JWSRenewalInfoDecodedPayload",
                      OriginalTransactionId |-> pl.originalTransactionId,
                      ExpiresDate |-> IF IsSome(pl.expiresDate) THEN Get(pl.expiresDate) ELSE 0]]

DecodeClaims(shape, pl) ==
    IF shape = "MapClaims" THEN DecodeMapClaims(pl)
    ELSE IF shape = "SubscriptionInfo" THEN DecodeSubscriptionInfo(pl)
    ELSE DecodeRenewalInfo(pl)

\* Parser.ParseUnverified: segments, header, payload into the shape, method lookup
ParseUnverified(env, shape) ==
    IF ~env.wf THEN "token is malformed"
    ELSE IF ~DecodeClaims(shape, env.payload).ok THEN "token is malformed"
    ELSE IF ~IsSome(env.header.alg) THEN "signing method (alg) is unspecified"
    ELSE IF Get(env.header.alg) \notin RegisteredMethods
         THEN "signing method (alg) is unavailable"
    ELSE ""

\* SubscriptionInfo.parseJWT (subscription.go 54-66) on the SignedTransactionInfo
\* member: an absent member is the empty string, which has no three segments
ParseJWT(sti) == IsSome(sti) /\ Get(sti).wf

\* a claim accessor's answer: [err, val]; val absent is a nil *NumericDate
\* Timestamp.ToNumericDate: milliseconds to the second they fall in
ToNumericDate(t) == t \div 1000

GetExpirationTime(c) ==
    IF c.shape = "MapClaims" THEN [err |-> FALSE, val |-> c.exp]
    ELSE IF c.shape = "SubscriptionInfo"
    THEN IF ~ParseJWT(c.SignedTransactionInfo) THEN [err |-> TRUE, val |-> None]
         ELSE IF ~IsSome(Get(c.SignedTransactionInfo).exp) THEN [err |-> TRUE, val |-> None]
         ELSE [err |-> FALSE, val |-> Get(c.SignedTransactionInfo).exp]
    ELSE IF c.ExpiresDate = 0 THEN [err |-> TRUE, val |-> None]
         ELSE [err |-> FALSE, val |-> Some(ToNumericDate(c.ExpiresDate))]

GetNotBefore(c) ==
    IF c.shape = "MapClaims" THEN [err |-> FALSE, val |-> c.nbf]
    ELSE IF c.shape = "SubscriptionInfo"
    THEN IF ~ParseJWT(c.SignedTransactionInfo) THEN [err |-> TRUE, val |-> None]
         ELSE IF ~IsSome(Get(c.SignedTransactionInfo).nbf) THEN [err |-> TRUE, val |-> None]
         ELSE [err |-> FALSE, val |-> Get(c.SignedTransactionInfo).nbf]
    ELSE [err |-> FALSE, val |-> None]

\* Validator.Validate with the parser's defaults: exp and nbf are checked when
\* present, an accessor's error fails the token, iat/iss/sub/aud are not checked
Validate(c, t) ==
    LET exp == GetExpirationTime(c)
        nbf == GetNotBefore(c)
        expBad == exp.err \/ (IsSome(exp.val) /\ ~(t < Get(exp.val)))
        nbfBad == nbf.err \/ (IsSome(nbf.val) /\ t < Get(nbf.val))
    IN  IF expBad \/ nbfBad THEN "token has invalid claims" ELSE ""

\* mutant: the claims are decoded and validated and the signature is not checked
ParseWithClaims_Unverified(env, shape, keyErr, key, t) ==
    LET pu == ParseUnverified(env, shape)
        c == DecodeClaims(shape, env.payload).claims
    IN  IF pu # "" THEN [err |-> pu, claims |-> None]
        ELSE IF keyErr # "" THEN [err |-> "token is unverifiable", claims |-> None]
        ELSE IF Validate(c, t) # "" THEN [err |-> Validate(c, t), claims |-> None]
        ELSE [err |-> "", claims |-> Some(c)]

\* Parser.ParseWithClaims: keyErr is the Keyfunc's error, key the key it returns
ParseWithClaims(env, shape, keyErr, key, t) ==
    LET pu == ParseUnverified(env, shape)
        c == DecodeClaims(shape, env.payload).claims
    IN  IF pu # "" THEN [err |-> pu, claims |-> None]
        ELSE IF keyErr # "" THEN [err |-> "token is unverifiable", claims |-> None]
        ELSE IF MethodVerify(env, key) # ""
             THEN [err |-> "token signature is invalid", claims |-> None]
        ELSE IF Validate(c, t) # "" THEN [err |-> Validate(c, t), claims |-> None]
        ELSE [err |-> "", claims |-> Some(c)]

(***************************************************************************)
(* GenerateAuthorizationJWT (JWT.go 16-50).  privateKeyStr is what         *)
(* pem.Decode and x509.ParseECPrivateKey see in it: the PEM block type     *)
(* ("" when there is no block), the DER form, the curve of the key (ES256  *)
(* signs with a P-256 key only) and the key it encodes.                    *)
(***************************************************************************)
ValiditySeconds == 1800

EmptyPayload ==
    [iss |-> None, aud |-> None, bid |-> None, exp |-> None, nbf |-> None, iat |-> None,
     expiresDate |-> None, purchaseDate |-> None, originalTransactionId |-> None,
     signedTransactionInfo |-> None]

NoToken ==
    [wf |-> FALSE, header |-> [alg |-> None, kid |-> [typ |-> "absent", val |-> ""]],
     payload |-> EmptyPayload,
     sig |-> [signer |-> NoKey, alg |-> "", hdr |-> [alg |-> None, kid |-> [typ |-> "absent", val |-> ""]],
              pl |-> EmptyPayload]]

\* mutant: the issuer and the bundle claim carry each other's input
GenerateAuthorizationJWT_Swapped(Kid, Bid, Iss, privateKeyStr, t) ==
    IF privateKeyStr.pem # "PRIVATE KEY"
    THEN [err |-> "failed to parse private key: invalid PEM format", token |-> NoToken]
    ELSE IF privateKeyStr.der # "sec1"
    THEN [err |-> "failed to parse EC private key", token |-> NoToken]
    ELSE IF privateKeyStr.curve # "P-256"
    THEN [err |-> "failed to sign JWT", token |-> NoToken]
    ELSE LET claims == [EmptyPayload EXCEPT !.iss = Some(Bid), !.iat = Some(t),
                                            !.exp = Some(t + ValiditySeconds),
                                            !.aud = Some("appstoreconnect-v1"),
                                            !.bid = Some(Iss)]
             hdr == [alg |-> Some("ES256"), kid |-> [typ |-> "string", val |-> Kid]]
         IN  [err |-> "",
              token |-> [wf |-> TRUE, header |-> hdr, payload |-> claims,
                         sig |-> Sign(privateKeyStr.key, "ES256", hdr, claims)]]

\* mutant: a signing failure returns the envelope built so far with the error
GenerateAuthorizationJWT_PartialSign(Kid, Bid, Iss, privateKeyStr, t) ==
    IF privateKeyStr.pem # "PRIVATE KEY"
    THEN [err |-> "failed to parse private key: invalid PEM format", token |-> NoToken]
    ELSE IF privateKeyStr.der # "sec1"
    THEN [err |-> "failed to parse EC private key", token |-> NoToken]
    ELSE LET claims == [EmptyPayload EXCEPT !.iss = Some(Iss), !.iat = Some(t),
                                            !.exp = Some(t + ValiditySeconds),
                                            !.aud = Some("appstoreconnect-v1"),
                                            !.bid = Some(Bid)]
             hdr == [alg |-> Some("ES256"), kid |-> [typ |-> "string", val |-> Kid]]
         IN  IF privateKeyStr.curve # "P-256"
             THEN [err |-> "failed to sign JWT",
                   token |-> [NoToken EXCEPT !.wf = TRUE, !.header = hdr, !.payload = claims]]
             ELSE [err |-> "",
                   token |-> [wf |-> TRUE, header |-> hdr, payload |-> claims,
                              sig |-> Sign(privateKeyStr.key, "ES256", hdr, claims)]]

GenerateAuthorizationJWT(Kid, Bid, Iss, privateKeyStr, t) ==
    IF privateKeyStr.pem # "PRIVATE KEY"
    THEN [err |-> "failed to parse private key: invalid PEM format", token |-> NoToken]
    ELSE IF privateKeyStr.der # "sec1"
    THEN [err |-> "failed to parse EC private key", token |-> NoToken]
    ELSE IF privateKeyStr.curve # "P-256"
    THEN [err |-> "failed to sign JWT", token |-> NoToken]
    ELSE LET claims == [EmptyPayload EXCEPT !.iss = Some(Iss), !.iat = Some(t),
                                            !.exp = Some(t + ValiditySeconds),
                                            !.aud = Some("appstoreconnect-v1"),
                                            !.bid = Some(Bid)]
             hdr == [alg |-> Some("ES256"), kid |-> [typ |-> "string", val |-> Kid]]
         IN  [err |-> "",
              token |-> [wf |-> TRUE, header |-> hdr, payload |-> claims,
                         sig |-> Sign(privateKeyStr.key, "ES256", hdr, claims)]]

(***************************************************************************)
(* The verification entry points, from the return of FetchAppleJWKs on.    *)
(* fetchErr is its error, jwkNil whether the pointer it returned is nil,   *)
(* keys the Keys of the struct the pointer refers to when it is            *)
(* dereferenced.  A result is [ok, step, cause, claims].                   *)
(***************************************************************************)
Fail(step, cause) == [ok |-> FALSE, step |-> step, cause |-> cause, claims |-> None]
Okay(claims) == [ok |-> TRUE, step |-> "", cause |-> "", claims |-> claims]
\* dereferencing a nil *AppleJWK
Panic == [ok |-> FALSE, step |-> "panic", cause |-> "nil pointer dereference", claims |-> None]

\* mutant: the header is decoded before the result of FetchAppleJWKs is looked at
VerifyJWT_HeaderFirst(fetchErr, jwkNil, keys, env, t) ==
    IF ParseUnverified(env, "MapClaims") # "" THEN Fail("parse", "failed to parse JWT")
    ELSE IF env.header.kid.typ # "string" THEN Fail("kid", "kid not found in JWT header")
    ELSE IF fetchErr # "" THEN Fail("fetch", "failed to fetch Apple JWKs")
    ELSE IF jwkNil THEN Panic
    ELSE LET k == GetAppleRSAPublicKey(keys, env.header.kid.val)
             keyErr == IF Get(env.header.alg) \in RSAMethods THEN "" ELSE "unexpected signing method"
             r == ParseWithClaims(env, "MapClaims", keyErr, k.key, t)
         IN  IF k.err # "" THEN Fail("key", k.err)
             ELSE IF r.err # "" THEN Fail("verify", r.err)
             ELSE Okay(None)

\* JWT.go 53-94
VerifyJWT(fetchErr, jwkNil, keys, env, t) ==
    IF fetchErr # "" THEN Fail("fetch", "failed to fetch Apple JWKs")
    ELSE IF ParseUnverified(env, "MapClaims") # "" THEN Fail("parse", "failed to parse JWT")
    ELSE IF env.header.kid.typ # "string" THEN Fail("kid", "kid not found in JWT header")
    ELSE IF jwkNil THEN Panic
    ELSE LET k == GetAppleRSAPublicKey(keys, env.header.kid.val)
             keyErr == IF Get(env.header.alg) \in RSAMethods THEN "" ELSE "unexpected signing method"
             r == ParseWithClaims(env, "MapClaims", keyErr, k.key, t)
         IN  IF k.err # "" THEN Fail("key", k.err)
             ELSE IF r.err # "" THEN Fail("verify", r.err)
             ELSE Okay(None)

\* JWT.go 120-158
VerifyJWSTransaction(fetchErr, jwkNil, keys, env, t) ==
    IF fetchErr # "" THEN Fail("fetch", "failed to fetch Apple JWKs")
    ELSE IF ParseUnverified(env, "MapClaims") # "" THEN Fail("parse", "failed to parse JWT")
    ELSE IF env.header.kid.typ # "string" THEN Fail("kid", "kid not found in JWT header")
    ELSE IF jwkNil THEN Panic
    ELSE LET k == GetAppleRSAPublicKey(keys, env.header.kid.val)
             r == ParseWithClaims(env, "SubscriptionInfo", "", k.key, t)
         IN  IF k.err # "" THEN Fail("key", k.err)
             ELSE IF r.err # "" THEN Fail("verify", r.err)
             ELSE Okay(r.claims)

\* client.go 274-312
VerifyJWSRenewalInfo(fetchErr, jwkNil, keys, env, t) ==
    IF fetchErr # "" THEN Fail("fetch", "failed to fetch Apple JWKs")
    ELSE IF ParseUnverified(env, "MapClaims") # "" THEN Fail("parse", "failed to parse JWT")
    ELSE IF env.header.kid.typ # "string" THEN Fail("kid", "kid not found in JWT header")
    ELSE IF jwkNil THEN Panic
    ELSE LET k == GetAppleRSAPublicKey(keys, env.header.kid.val)
             r == ParseWithClaims(env, "JWSRenewalInfoDecodedPayload", "", k.key, t)
         IN  IF k.err # "" THEN Fail("key", k.err)
             ELSE IF r.err # "" THEN Fail("verify", r.err)
             ELSE Okay(r.claims)

EntryPoints == {"VerifyJWT", "VerifyJWSTransaction", "VerifyJWSRenewalInfo"}

Verify(entry, fetchErr, jwkNil, keys, env, t) ==
    IF entry = "VerifyJWT" THEN VerifyJWT(fetchErr, jwkNil, keys, env, t)
    ELSE IF entry = "VerifyJWSTransaction" THEN VerifyJWSTransaction(fetchErr, jwkNil, keys, env, t)
    ELSE VerifyJWSRenewalInfo(fetchErr, jwkNil, keys, env, t)

(***************************************************************************)
(* The published key sets and the answers of the key endpoint.             *)
(***************************************************************************)
\* "AQAB" and "Aw" as alphabet indices
AQAB == <<0, 16, 0, 1>>
Aw == <<0, 48>>

JwkK1 == [Kid |-> "k1", N |-> <<8, 48>>, E |-> AQAB]
JwkK2 == [Kid |-> "k2", N |-> <<9, 0>>, E |-> Aw]
\* a two-byte exponent
JwkK3 == [Kid |-> "k3", N |-> <<9, 16>>, E |-> <<0, 16, 0>>]
\* a modulus that is not base64url
JwkK4 == [Kid |-> "k4", N |-> <<8, 64>>, E |-> AQAB]

KeySetA == <<JwkK1, JwkK2>>
KeySetB == <<JwkK3, JwkK4, JwkK1>>

\* a response: the transport error, the status line and what the body is to
\* encoding/json: "syntax" (not JSON), "null", "wrongtype" (a JSON value that
\* is no object) or "object", with its "keys" member when it has one
Resp(neterr, status, kind, keys) ==
    [neterr |-> neterr, status |-> status, kind |-> kind, keys |-> keys]

NoResp == Resp(FALSE, 0, "none", None)

Responses ==
    { Resp(TRUE, 0, "none", None),
      Resp(FALSE, 200, "object", Some(KeySetA)),
      Resp(FALSE, 200, "object", Some(KeySetB)),
      Resp(FALSE, 503, "object", None),
      Resp(FALSE, 200, "syntax", None),
      Resp(FALSE, 200, "wrongtype", None),
      Resp(FALSE, 200, "null", None) }

\* the fetch failures of the key endpoint: a transport error, a status other
\* than 200, or a body that is not a JSON document with a keys array
FetchFailed(r) == r.neterr \/ r.status # 200 \/ r.kind # "object" \/ ~IsSome(r.keys)

(***************************************************************************)
(* Envelopes presented to the verification entry points.                   *)
(***************************************************************************)
PubOf(jwk) == KeyFromEntry(jwk).key
RSAPriv(jwk) == [kty |-> "RSA", pub |-> PubOf(jwk)]
ECPriv == [kty |-> "EC", pub |-> [kty |-> "EC", N |-> 7, E |-> 0]]

Hdr(alg, kid) == [alg |-> Some(alg), kid |-> [typ |-> "string", val |-> kid]]

\* an envelope signed over its own header and payload
Signed(priv, hdr, pl) ==
    [wf |-> TRUE, header |-> hdr, payload |-> pl, sig |-> Sign(priv, Get(hdr.alg), hdr, pl)]

\* a transaction-info JWS as it sits in a signedTransactionInfo member
Inner(exp, nbf) == [wf |-> TRUE, exp |-> exp, nbf |-> nbf]

\* carries every temporal claim, all of them current at time 2
PlFull ==
    [EmptyPayload EXCEPT !.exp = Some(3), !.nbf = Some(1), !.iat = Some(1),
                         !.expiresDate = Some(3500),
                         !.originalTransactionId = Some("1000000000000001"),
                         !.signedTransactionInfo = Some(Inner(Some(3), Some(1)))]
\* every expiry in the past
PlExpired ==
    [PlFull EXCEPT !.exp = Some(1), !.expiresDate = Some(1500),
                   !.signedTransactionInfo = Some(Inner(Some(1), Some(1)))]
\* a renewal-info payload: a current expiresDate and no registered claim
PlRenewal ==
    [EmptyPayload EXCEPT !.expiresDate = Some(3500),
                         !.originalTransactionId = Some("1000000000000001")]
\* the same with purchaseDate as the number the App Store sends
PlNumericDates == [PlRenewal EXCEPT !.purchaseDate = Some("number")]

EnvGood == Signed(RSAPriv(JwkK1), Hdr("RS256", "k1"), PlFull)
EnvGoodK2 == Signed(RSAPriv(JwkK2), Hdr("RS256", "k2"), PlFull)
EnvPSS == Signed(RSAPriv(JwkK1), Hdr("PS256", "k1"), PlFull)
EnvExpired == Signed(RSAPriv(JwkK1), Hdr("RS256", "k1"), PlExpired)
EnvNoClaims == Signed(RSAPriv(JwkK1), Hdr("RS256", "k1"), EmptyPayload)
EnvRenewal == Signed(RSAPriv(JwkK1), Hdr("RS256", "k1"), PlRenewal)
EnvNumericDates == Signed(RSAPriv(JwkK1), Hdr("RS256", "k1"), PlNumericDates)
\* the signature segment altered
EnvBadSig == [EnvGood EXCEPT !.sig.signer = NoKey]
\* signed by k2's private key under k1's kid
EnvWrongKey == Signed(RSAPriv(JwkK2), Hdr("RS256", "k1"), PlFull)
EnvUnknownKid == Signed(RSAPriv(JwkK1), Hdr("RS256", "k9"), PlFull)
EnvBadExponent == Signed(RSAPriv(JwkK1), Hdr("RS256", "k3"), PlFull)
EnvNoKid == Signed(RSAPriv(JwkK1),
                   [alg |-> Some("RS256"), kid |-> [typ |-> "absent", val |-> ""]], PlFull)
EnvMalformed == [EnvGood EXCEPT !.wf = FALSE]
\* algorithm substitution: HS256 keyed with the public key, and "none"
EnvHS256 == Signed([kty |-> "HMAC", pub |-> [PubOf(JwkK1) EXCEPT !.kty = "HMAC"]],
                   Hdr("HS256", "k1"), PlFull)
EnvNone == Signed([kty |-> "none", pub |-> NoKey], Hdr("none", "k1"), PlFull)
EnvES256 == Signed(ECPriv, Hdr("ES256", "k1"), PlFull)
\* an algorithm golang-jwt has no method for
EnvUnknownAlg == Signed(RSAPriv(JwkK1), Hdr("XS256", "k1"), PlFull)

Envelopes ==
    { EnvGood, EnvGoodK2, EnvPSS, EnvExpired, EnvNoClaims, EnvRenewal, EnvBadSig,
      EnvWrongKey, EnvUnknownKid, EnvBadExponent, EnvNoKid, EnvMalformed,
      EnvHS256, EnvNone, EnvES256, EnvNumericDates, EnvUnknownAlg }

\* the envelopes goroutines race with
RaceEnvelopes == { EnvGood, EnvNoKid }

\* what callers hand to GenerateAuthorizationJWT
KeyStrings ==
    { [pem |-> "PRIVATE KEY", der |-> "sec1", curve |-> "P-256", key |-> ECPriv],
      [pem |-> "PRIVATE KEY", der |-> "sec1", curve |-> "P-384", key |-> ECPriv],
      [pem |-> "PRIVATE KEY", der |-> "pkcs8", curve |-> "P-256", key |-> ECPriv],
      [pem |-> "EC PRIVATE KEY", der |-> "sec1", curve |-> "P-256", key |-> ECPriv],
      [pem |-> "", der |-> "", curve |-> "", key |-> ECPriv] }
IssueInputs ==
    [Kid : {"k1", "k9"}, Bid : {"com.example.app"}, Iss : {"issuer-1"}, key : KeyStrings]

Issue(in, t) == GenerateAuthorizationJWT(in.Kid, in.Bid, in.Iss, in.key, t)

\* the envelopes an issuance at time t returns
Issued(t) == { Issue(in, t).token : in \in {i \in IssueInputs : Issue(i, t).err = ""} }

(***************************************************************************)
(* State.  AppleJWKs is the package variable: 0 is nil, otherwise the      *)
(* AppleJWK struct it points to; heap[o] is struct o (its Keys slice).      *)
(* Each goroutine runs one verification call at a time: pc is its place in *)
(* it, entry and env the call, resp the answer its GET received, obj the   *)
(* struct its json decoder writes to, idx the elements it has stored, jwk  *)
(* and ferr what FetchAppleJWKs returned to it, res the call's result.     *)
(* now is the wall clock; inputs are the envelopes callers present.        *)
(***************************************************************************)
VARIABLES AppleJWKs, heap, now, inputs, pc, entry, env, resp, obj, idx, jwk, ferr, res

(***************************************************************************)
(* A Client (client.go): Config is its configuration, Authorization its    *)
(* stored envelope (None is the nil pointer), issued the envelopes its Do  *)
(* calls have generated, last what its latest Do call did: the error it    *)
(* returned, the envelope it put in the Authorization header of a request  *)
(* and the time.  gen is the latest direct call of                         *)
(* GenerateAuthorizationJWT: its inputs, the time and what it returned.    *)
(***************************************************************************)
VARIABLES Config, Authorization, issued, last, gen

(***************************************************************************)
(* A call of GetAppleRSAPublicKey on a published key set: published is the *)
(* set, wanted the kid asked for, rebuilt what the call returned.          *)
(***************************************************************************)
VARIABLES published, wanted, rebuilt

cvars == <<Config, Authorization, issued, last, gen>>
kvars == <<published, wanted, rebuilt>>

vars == <<AppleJWKs, heap, now, inputs, pc, entry, env, resp, obj, idx, jwk, ferr, res,
          Config, Authorization, issued, last, gen, published, wanted, rebuilt>>

Objs == 1..(NumProcs + 1)
NoRes == Fail("none", "")

\* a zero AppleJWK struct: Keys is a nil slice.  arr is the backing array of
\* Keys and len its length
ZeroStruct == [arr |-> <<>>, len |-> 0]
\* jwk.Keys of struct o
Keys(o) == SubSeq(heap[o].arr, 1, heap[o].len)

Idle(p) ==
    /\ entry' = [entry EXCEPT ![p] = ""]
    /\ env' = [env EXCEPT ![p] = NoToken]
    /\ resp' = [resp EXCEPT ![p] = NoResp]
    /\ obj' = [obj EXCEPT ![p] = 0]
    /\ idx' = [idx EXCEPT ![p] = 0]
    /\ jwk' = [jwk EXCEPT ![p] = 0]
    /\ ferr' = [ferr EXCEPT ![p] = ""]
    /\ res' = [res EXCEPT ![p] = NoRes]

InitCommon ==
    /\ AppleJWKs = 0
    /\ heap = [o \in Objs |-> ZeroStruct]
    /\ entry = [p \in Procs |-> ""]
    /\ env = [p \in Procs |-> NoToken]
    /\ resp = [p \in Procs |-> NoResp]
    /\ obj = [p \in Procs |-> 0]
    /\ idx = [p \in Procs |-> 0]
    /\ jwk = [p \in Procs |-> 0]
    /\ ferr = [p \in Procs |-> ""]
    /\ res = [p \in Procs |-> NoRes]

\* what a Do call leaves: its error, the envelope it sent and the time
NoDo == [err |-> "", bearer |-> None, at |-> 0]
\* no direct call of GenerateAuthorizationJWT yet
NoGen == [called |-> FALSE, at |-> 0, Kid |-> "", Bid |-> "", Iss |-> "",
          out |-> [err |-> "", token |-> NoToken]]
\* no call of GetAppleRSAPublicKey yet
NoRebuilt == [called |-> FALSE, err |-> "", key |-> NoKey]

\* no Client exists
InitNoClient ==
    /\ Config = [Kid |-> "", Bid |-> "", Iss |-> "", key |-> [pem |-> "", der |-> "", curve |-> "", key |-> ECPriv]]
    /\ Authorization = None
    /\ issued = 0
    /\ last = NoDo
    /\ gen = NoGen

\* no key set is looked at on its own
InitNoKeySet ==
    /\ published = <<>>
    /\ wanted = ""
    /\ rebuilt = NoRebuilt

\* goroutines verifying concurrently
Init ==
    /\ InitCommon
    /\ InitNoClient
    /\ InitNoKeySet
    /\ now = 2
    /\ inputs = RaceEnvelopes
    /\ pc = [p \in Procs |-> "idle"]

\* one goroutine verifying call after call, over every envelope
InitVerify ==
    /\ InitCommon
    /\ InitNoClient
    /\ InitNoKeySet
    /\ now \in 2..3
    /\ inputs = Envelopes \cup Issued(now)
    /\ pc = [p \in Procs |-> IF p = 1 THEN "idle" ELSE "off"]

\* a caller enters VerifyJWT, VerifyJWSTransaction or VerifyJWSRenewalInfo
Call(p) ==
    /\ pc[p] = "idle"
    /\ \E e \in EntryPoints, v \in inputs :
          /\ entry' = [entry EXCEPT ![p] = e]
          /\ env' = [env EXCEPT ![p] = v]
    /\ pc' = [pc EXCEPT ![p] = "L29"]
    /\ UNCHANGED <<AppleJWKs, heap, now, inputs, resp, obj, idx, jwk, ferr, res>>
    /\ UNCHANGED <<cvars, kvars>>

\* FetchAppleJWKs line 29: if AppleJWKs != nil
CheckCache(p) ==
    /\ pc[p] = "L29"
    /\ pc' = [pc EXCEPT ![p] = IF AppleJWKs # 0 THEN "L30" ELSE "L33"]
    /\ UNCHANGED <<AppleJWKs, heap, now, inputs, entry, env, resp, obj, idx, jwk, ferr, res>>
    /\ UNCHANGED <<cvars, kvars>>

\* line 30: return AppleJWKs, nil
ReturnCached(p) ==
    /\ pc[p] = "L30"
    /\ jwk' = [jwk EXCEPT ![p] = AppleJWKs]
    /\ pc' = [pc EXCEPT ![p] = "rest"]
    /\ UNCHANGED <<AppleJWKs, heap, now, inputs, entry, env, resp, obj, idx, ferr, res>>
    /\ UNCHANGED <<cvars, kvars>>

\* lines 33-37: http.Get; the status of the response is not looked at
HttpGet(p) ==
    /\ pc[p] = "L33"
    /\ \E r \in Responses :
          /\ resp' = [resp EXCEPT ![p] = r]
          /\ ferr' = [ferr EXCEPT ![p] = IF r.neterr THEN "failed to fetch Apple JWKs" ELSE ""]
          /\ pc' = [pc EXCEPT ![p] = IF r.neterr THEN "rest" ELSE "L39"]
    /\ UNCHANGED <<AppleJWKs, heap, now, inputs, entry, env, obj, idx, jwk, res>>
    /\ UNCHANGED <<cvars, kvars>>

\* line 39, Decode(&AppleJWKs): the decoder reads one JSON value; a syntax
\* error ends it; null stores nil; for any other value it follows the pointer
DecodeStart(p) ==
    /\ pc[p] = "L39"
    /\ IF resp[p].kind = "syntax"
       THEN /\ ferr' = [ferr EXCEPT ![p] = "failed to decode Apple JWKs"]
            /\ pc' = [pc EXCEPT ![p] = "rest"]
            /\ UNCHANGED <<AppleJWKs, obj>>
       ELSE IF resp[p].kind = "null"
       THEN /\ AppleJWKs' = 0
            /\ pc' = [pc EXCEPT ![p] = "L43"]
            /\ UNCHANGED <<ferr, obj>>
       ELSE /\ obj' = [obj EXCEPT ![p] = AppleJWKs]
            /\ pc' = [pc EXCEPT ![p] = IF AppleJWKs = 0 THEN "alloc" ELSE "fill"]
            /\ UNCHANGED <<AppleJWKs, ferr>>
    /\ UNCHANGED <<heap, now, inputs, entry, env, resp, idx, jwk, res>>
    /\ UNCHANGED <<cvars, kvars>>

\* the structs some pointer refers to
Referenced == ({AppleJWKs} \cup {obj[p] : p \in Procs} \cup {jwk[p] : p \in Procs}) \ {0}

\* line 39: the decoder found the pointer nil: it allocates a struct and
\* stores the pointer to it
DecodeAlloc(p) ==
    /\ pc[p] = "alloc"
    /\ LET o == CHOOSE x \in Objs \ Referenced : \A y \in Objs \ Referenced : x <= y
       IN  /\ heap' = [heap EXCEPT ![o] = ZeroStruct]
           /\ AppleJWKs' = o
           /\ obj' = [obj EXCEPT ![p] = o]
    /\ pc' = [pc EXCEPT ![p] = "fill"]
    /\ UNCHANGED <<now, inputs, entry, env, resp, idx, jwk, ferr, res>>
    /\ UNCHANGED <<cvars, kvars>>

\* line 39: the decoder stores the value into the struct: a value that is no
\* object is a type error; an object's keys array is stored element by
\* element into the slice's backing array, the slice growing to reach the
\* element stored, and the slice is cut to the array's length at the end
DecodeFill(p) ==
    /\ pc[p] = "fill"
    /\ IF resp[p].kind = "wrongtype"
       THEN /\ ferr' = [ferr EXCEPT ![p] = "failed to decode Apple JWKs"]
            /\ obj' = [obj EXCEPT ![p] = 0]
            /\ pc' = [pc EXCEPT ![p] = "rest"]
            /\ UNCHANGED <<heap, idx>>
       ELSE IF ~IsSome(resp[p].keys)
       THEN /\ pc' = [pc EXCEPT ![p] = "L43"]
            /\ UNCHANGED <<heap, idx, ferr, obj>>
       ELSE LET ks == Get(resp[p].keys)
                i == idx[p]
                old == heap[obj[p]]
            IN  IF i < Len(ks)
                THEN /\ heap' = [heap EXCEPT ![obj[p]] =
                                   [arr |-> IF i < Len(old.arr)
                                            THEN [old.arr EXCEPT ![i + 1] = ks[i + 1]]
                                            ELSE Append(old.arr, ks[i + 1]),
                                    len |-> IF i < old.len THEN old.len ELSE i + 1]]
                     /\ idx' = [idx EXCEPT ![p] = i + 1]
                     /\ UNCHANGED <<pc, ferr, obj>>
                ELSE /\ heap' = [heap EXCEPT ![obj[p]] =
                                   [old EXCEPT !.len = IF Len(ks) < old.len THEN Len(ks) ELSE old.len]]
                     /\ idx' = [idx EXCEPT ![p] = 0]
                     /\ pc' = [pc EXCEPT ![p] = "L43"]
                     /\ UNCHANGED <<ferr, obj>>
    /\ UNCHANGED <<AppleJWKs, now, inputs, entry, env, resp, jwk, res>>
    /\ UNCHANGED <<cvars, kvars>>

\* line 43: return AppleJWKs, nil
ReturnFetched(p) ==
    /\ pc[p] = "L43"
    /\ jwk' = [jwk EXCEPT ![p] = AppleJWKs]
    /\ obj' = [obj EXCEPT ![p] = 0]
    /\ pc' = [pc EXCEPT ![p] = "rest"]
    /\ UNCHANGED <<AppleJWKs, heap, now, inputs, entry, env, resp, idx, ferr, res>>
    /\ UNCHANGED <<cvars, kvars>>

\* the entry point from the return of FetchAppleJWKs to its own return
Rest(p) ==
    /\ pc[p] = "rest"
    /\ res' = [res EXCEPT ![p] =
                 Verify(entry[p], ferr[p], jwk[p] = 0,
                        IF jwk[p] = 0 THEN <<>> ELSE Keys(jwk[p]), env[p], now)]
    /\ pc' = [pc EXCEPT ![p] = "done"]
    /\ UNCHANGED <<AppleJWKs, heap, now, inputs, entry, env, resp, obj, idx, jwk, ferr>>
    /\ UNCHANGED <<cvars, kvars>>

\* the caller has its result; the goroutine is free for the next call
Return(p) ==
    /\ pc[p] = "done"
    /\ Idle(p)
    /\ pc' = [pc EXCEPT ![p] = "idle"]
    /\ UNCHANGED <<AppleJWKs, heap, now, inputs>>
    /\ UNCHANGED <<cvars, kvars>>

Next ==
    \E p \in Procs :
        \/ Call(p)
        \/ CheckCache(p)
        \/ ReturnCached(p)
        \/ HttpGet(p)
        \/ DecodeStart(p)
        \/ DecodeAlloc(p)
        \/ DecodeFill(p)
        \/ ReturnFetched(p)
        \/ Rest(p)
        \/ Return(p)

Spec == Init /\ [][Next]_vars

SpecVerify == InitVerify /\ [][Next]_vars

(***************************************************************************)
(* A Client and its Do (client.go 27-33, 62-103), and callers of           *)
(* GenerateAuthorizationJWT.  The clock is in seconds (time.Now().Unix()). *)
(***************************************************************************)
\* the clock advances by ClockStep seconds up to MaxClock
ClockStep == 600
MaxClock == 3600

\* how the rest of Do ends once the envelope is there: http.NewRequest fails
\* (lines 75-79), the transport fails (82-85), the status is not 200 (88-90),
\* the body is not read or decoded (92-100), or the response is returned
DoOutcomes == {"request", "transport", "status", "body", "ok"}

\* mutant: an envelope past its validity is replaced by a fresh one
Authorize_Refresh(auth, cfg, t) ==
    IF IsSome(auth) /\ t < Get(Get(auth).payload.exp)
    THEN [err |-> "", auth |-> auth, issued |-> 0]
    ELSE LET g == GenerateAuthorizationJWT(cfg.Kid, cfg.Bid, cfg.Iss, cfg.key, t)
         IN  IF g.err # ""
             THEN [err |-> g.err, auth |-> auth, issued |-> 0]
             ELSE [err |-> "", auth |-> Some(g.token), issued |-> 1]

\* Do lines 64-70: c.Authorization after them, the error they return and
\* the envelopes they generated
Authorize(auth, cfg, t) ==
    IF IsSome(auth)
    THEN [err |-> "", auth |-> auth, issued |-> 0]
    ELSE LET g == GenerateAuthorizationJWT(cfg.Kid, cfg.Bid, cfg.Iss, cfg.key, t)
         IN  IF g.err # ""
             THEN [err |-> g.err, auth |-> auth, issued |-> 0]
             ELSE [err |-> "", auth |-> Some(g.token), issued |-> 1]

\* NewClient: the Client holds the caller's Config and no envelope
InitClient ==
    /\ InitCommon
    /\ InitNoKeySet
    /\ now = 0
    /\ inputs = {}
    /\ pc = [p \in Procs |-> "off"]
    /\ Config \in IssueInputs
    /\ Authorization = None
    /\ issued = 0
    /\ last = NoDo
    /\ gen = NoGen

\* time passes
Tick ==
    /\ now + ClockStep <= MaxClock
    /\ now' = now + ClockStep
    /\ UNCHANGED <<AppleJWKs, heap, inputs, pc, entry, env, resp, obj, idx, jwk, ferr, res>>
    /\ UNCHANGED <<cvars, kvars>>

\* a call of Client.Do
Do ==
    LET a == Authorize(Authorization, Config, now)
    IN  /\ Authorization' = a.auth
        /\ issued' = issued + a.issued
        /\ IF a.err # ""
           THEN last' = [err |-> a.err, bearer |-> None, at |-> now]
           ELSE \E o \in DoOutcomes :
                   last' = [err |-> IF o = "ok" THEN "" ELSE o,
                            bearer |-> IF o = "request" THEN None ELSE a.auth,
                            at |-> now]
        /\ UNCHANGED <<AppleJWKs, heap, now, inputs, pc, entry, env, resp, obj, idx, jwk, ferr, res>>
        /\ UNCHANGED <<Config, gen, kvars>>

\* a caller calls GenerateAuthorizationJWT itself
CallGenerate ==
    /\ \E in \in IssueInputs :
          gen' = [called |-> TRUE, at |-> now, Kid |-> in.Kid, Bid |-> in.Bid, Iss |-> in.Iss,
                  out |-> GenerateAuthorizationJWT(in.Kid, in.Bid, in.Iss, in.key, now)]
    /\ UNCHANGED <<AppleJWKs, heap, now, inputs, pc, entry, env, resp, obj, idx, jwk, ferr, res>>
    /\ UNCHANGED <<Config, Authorization, issued, last, kvars>>

NextClient ==
    \/ Tick
    \/ Do
    \/ CallGenerate

SpecClient == InitClient /\ [][NextClient]_vars

(***************************************************************************)
(* GetAppleRSAPublicKey on published entries whose exponent text is any    *)
(* base64url text of up to MaxTextLen characters over Sextets.             *)
(***************************************************************************)
MaxTextLen == 6
\* the characters A, B, Q, w and _ as alphabet indices
Sextets == {0, 1, 16, 48, 63}
ExponentTexts == UNION { [1..n -> Sextets] : n \in 0..MaxTextLen }

InitKey ==
    /\ InitCommon
    /\ InitNoClient
    /\ now = 0
    /\ inputs = {}
    /\ pc = [p \in Procs |-> "off"]
    /\ \E e \in ExponentTexts : published = << [JwkK1 EXCEPT !.E = e] >>
    /\ wanted \in {"k1", "k9"}
    /\ rebuilt = NoRebuilt

\* a call of GetAppleRSAPublicKey(jwk, kid)
Reconstruct ==
    /\ ~rebuilt.called
    /\ LET r == GetAppleRSAPublicKey(published, wanted)
       IN  rebuilt' = [called |-> TRUE, err |-> r.err, key |-> r.key]
    /\ UNCHANGED <<AppleJWKs, heap, now, inputs, pc, entry, env, resp, obj, idx, jwk, ferr, res>>
    /\ UNCHANGED <<cvars, published, wanted>>

NextKey == Reconstruct

SpecKey == InitKey /\ [][NextKey]_vars

(***************************************************************************)
(* Properties.                                                             *)
(***************************************************************************)
Done(p) == pc[p] = "done"
\* the call of p performed an outbound GET
Fetched(p) == resp[p] # NoResp
\* what FetchAppleJWKs handed to the call of p, as the entry point reads it
KeysOf(p) == IF jwk[p] = 0 THEN <<>> ELSE Keys(jwk[p])
Kids(keys) == {keys[i].Kid : i \in 1..Len(keys)}
\* the envelope gets past the header steps: it parses and carries a string kid
HeaderOk(v) == ParseUnverified(v, "MapClaims") = "" /\ v.header.kid.typ = "string"
\* FetchAppleJWKs returned a key set to the call of p
GotKeySet(p) == ferr[p] = "" /\ jwk[p] # 0

\* C1: while the directory is unpopulated, concurrent verification calls
\* perform one outbound fetch in all: at most one goroutine is between its
\* GET and the return of FetchAppleJWKs at any time.
C1_OneFetchInFlight ==
    Cardinality({p \in Procs : pc[p] \in {"L39", "alloc", "fill", "L43"}}) <= 1

\* C2: a call whose fetch failed (transport error, status other than 200,
\* body that is no key set) ends with the fetch failure and leaves the
\* directory unpopulated.
C2_FailedFetchReported ==
    \A p \in Procs :
        (Done(p) /\ Fetched(p) /\ FetchFailed(resp[p]))
            => (res[p].step = "fetch" /\ AppleJWKs = 0)

\* the directory holds the key set of a successful response
PopulatedBySuccess == AppleJWKs # 0 /\ Keys(AppleJWKs) \in {KeySetA, KeySetB}

\* C3: once a successful fetch has populated the directory it stays
\* populated (so that every later lookup is answered from it), and only the
\* fetch path of FetchAppleJWKs changes it.
C3_EntriesRetained ==
    [][ /\ PopulatedBySuccess => AppleJWKs' # 0
        /\ (AppleJWKs' # AppleJWKs \/ heap' # heap)
              => \E p \in Procs : pc[p] \in {"L39", "alloc", "fill"} ]_vars

\* C4: a call that got a key set and whose envelope names a kid the set does
\* not hold ends with the key-not-found error and no claim set, in each of
\* the three entry points.
C4_UnknownKidNotFound ==
    \A p \in Procs :
        (Done(p) /\ GotKeySet(p) /\ HeaderOk(env[p])
                 /\ env[p].header.kid.val \notin Kids(KeysOf(p)))
            => res[p] = Fail("key", "no matching key found for kid")

C4_Witness ==
    \E p \in Procs :
        /\ Done(p) /\ env[p] = EnvUnknownKid /\ entry[p] = "VerifyJWSTransaction"
        /\ Fetched(p) /\ ~FetchFailed(resp[p]) /\ KeysOf(p) = KeySetA
        /\ res[p].step = "key" /\ res[p].claims = None

\* C5 as stated: an envelope that is malformed or carries no kid fails with
\* its own error whatever the key directory holds, and its call performs no
\* outbound fetch.
C5_HeaderErrorsWithoutFetch ==
    \A p \in Procs :
        (Done(p) /\ ~HeaderOk(env[p]))
            => (res[p].step \in {"parse", "kid"} /\ ~Fetched(p))

\* C5 as amended: the entry points obtain the key set first and decode the
\* header second: a call with a malformed or kid-less envelope has been
\* through FetchAppleJWKs (a GET, or the cached pointer), fails with the fetch
\* failure when that returned an error, and with its own error otherwise.
C5_FetchBeforeHeader ==
    \A p \in Procs :
        (Done(p) /\ ~HeaderOk(env[p]))
            => /\ Fetched(p) \/ jwk[p] # 0
               /\ res[p].step = IF ferr[p] # "" THEN "fetch"
                                ELSE IF ParseUnverified(env[p], "MapClaims") # "" THEN "parse"
                                ELSE "kid"

C5_Witness ==
    \E p \in Procs :
        /\ Done(p) /\ env[p] = EnvNoKid /\ entry[p] = "VerifyJWT"
        /\ Fetched(p) /\ ~FetchFailed(resp[p]) /\ res[p].step = "kid"

\* the claim shape an entry point decodes into
ShapeOf(e) ==
    IF e = "VerifyJWT" THEN "MapClaims"
    ELSE IF e = "VerifyJWSTransaction" THEN "SubscriptionInfo"
    ELSE "JWSRenewalInfoDecodedPayload"
\* the key the directory resolves for the envelope of p
ResolvedKey(p) == GetAppleRSAPublicKey(KeysOf(p), env[p].header.kid.val)
\* the signature segment is the RSA signature of the header and payload under key
ValidSig(v, key) ==
    /\ Get(v.header.alg) \in RSAMethods \cup PSSMethods
    /\ v.sig = [signer |-> key, alg |-> Get(v.header.alg), hdr |-> v.header, pl |-> v.payload]
\* the call of p gets as far as the signature check
ReachesSignature(p) ==
    /\ GotKeySet(p) /\ HeaderOk(env[p]) /\ ResolvedKey(p).err = ""
    /\ DecodeClaims(ShapeOf(entry[p]), env[p].payload).ok
    /\ entry[p] = "VerifyJWT" => Get(env[p].header.alg) \in RSAMethods

C7_ForeignAlgRejected ==
    \A p \in Procs :
        (Done(p) /\ env[p].wf /\ IsSome(env[p].header.alg)
                 /\ Get(env[p].header.alg) \notin RSAMethods \cup PSSMethods)
            => (~res[p].ok /\ res[p].claims = None)

C7_Witness ==
    \E p \in Procs :
        /\ Done(p) /\ env[p] = EnvHS256 /\ entry[p] = "VerifyJWSTransaction"
        /\ GotKeySet(p) /\ ResolvedKey(p).err = ""
        /\ res[p].step = "verify"

\* C8: a correctly signed envelope whose kid resolves verifies whatever its
\* expiry, issued-at and not-before claims are, absent ones included.
C8_NoTemporalEnforcement ==
    \A p \in Procs :
        (Done(p) /\ ReachesSignature(p) /\ ValidSig(env[p], ResolvedKey(p).key))
            => res[p].ok

\* C9: on every envelope and key-directory state the transaction-info and
\* the renewal-info entry points both succeed or both fail, at the same step.
C9_SameOutcome ==
    \A p \in Procs :
        Done(p) =>
            LET a == VerifyJWSTransaction(ferr[p], jwk[p] = 0, KeysOf(p), env[p], now)
                b == VerifyJWSRenewalInfo(ferr[p], jwk[p] = 0, KeysOf(p), env[p], now)
            IN  a.ok = b.ok /\ a.step = b.step

IssuedFor(tok, Kid, Bid, Iss) ==
    /\ tok.wf
    /\ tok.header.alg = Some("ES256")
    /\ tok.header.kid = [typ |-> "string", val |-> Kid]
    /\ tok.payload.iss = Some(Iss)
    /\ tok.payload.bid = Some(Bid)
    /\ tok.payload.aud = Some("appstoreconnect-v1")
    /\ IsSome(tok.payload.iat) /\ IsSome(tok.payload.exp)
    /\ Get(tok.payload.exp) = Get(tok.payload.iat) + 30 * 60
    /\ tok.sig.alg = "ES256" /\ tok.sig.hdr = tok.header /\ tok.sig.pl = tok.payload

C11_IssuedEnvelope ==
    /\ gen.called =>
          IF gen.out.err = ""
          THEN /\ IssuedFor(gen.out.token, gen.Kid, gen.Bid, gen.Iss)
               /\ Get(gen.out.token.payload.iat) = gen.at
          ELSE gen.out.token = NoToken
    /\ IsSome(Authorization) =>
          IssuedFor(Get(Authorization), Config.Kid, Config.Bid, Config.Iss)

\* a direct call failed at signing at a time after 0, and the Client's Do
\* generated an envelope from its Config
C11_Witness ==
    /\ gen.called /\ gen.at > 0 /\ gen.out.err = "failed to sign JWT"
    /\ IsSome(Authorization) /\ issued = 1

(***************************************************************************)
(* C12: the key GetAppleRSAPublicKey rebuilds from an entry whose modulus  *)
(* and exponent texts decode has, for an exponent of 1 or 3 bytes, the     *)
(* big-endian unsigned value of those bytes as its exponent ([3] gives 3,  *)
(* [1,0,1] gives 65537); for any other number of bytes the call fails with *)
(* "unexpected exponent length" and returns no key.                        *)
(***************************************************************************)
ExponentBytes == RawURLDecode(published[1].E)

C12_ExponentBigEndian ==
    (rebuilt.called /\ wanted = published[1].Kid /\ ExponentBytes.ok) =>
        LET b == ExponentBytes.bytes
        IN  /\ IF Len(b) = 1
               THEN rebuilt.err = "" /\ rebuilt.key.E = b[1]
               ELSE IF Len(b) = 3
               THEN rebuilt.err = "" /\ rebuilt.key.E = b[1] * 65536 + b[2] * 256 + b[3]
               ELSE rebuilt.err = "unexpected exponent length" /\ rebuilt.key = NoKey
            /\ rebuilt.err = "" => rebuilt.key.E = SetBytes(b)
            /\ b = <<3>> => rebuilt.key.E = 3
            /\ b = <<1, 0, 1>> => rebuilt.key.E = 65537

\* a three-byte exponent whose first and last bytes differ was rebuilt
C12_Witness ==
    /\ rebuilt.called /\ rebuilt.err = ""
    /\ ExponentBytes.ok /\ Len(ExponentBytes.bytes) = 3
    /\ ExponentBytes.bytes[1] # ExponentBytes.bytes[3]
    /\ rebuilt.key.E > 65537

(***************************************************************************)
(* C13: a Client generates its envelope at most once.  A Do call that      *)
(* finds Authorization unset generates and stores one; a failed generation *)
(* leaves it unset; a stored envelope is never replaced, and every Do call *)
(* that sends a request sends the stored envelope, however long after its  *)
(* exp.                                                                    *)
(***************************************************************************)
GenerationErrors ==
    { "failed to parse private key: invalid PEM format", "failed to parse EC private key",
      "failed to sign JWT" }

C13_IssuedOnce ==
    [][ /\ issued' <= 1
        /\ IsSome(Authorization') <=> issued' = 1
        /\ IsSome(Authorization) => Authorization' = Authorization /\ issued' = issued
        /\ last'.err \in GenerationErrors => Authorization' = None
        /\ IsSome(last'.bearer) => last'.bearer = Authorization'
        /\ (last' # last /\ last'.err \notin GenerationErrors) => IsSome(Authorization')
      ]_vars

\* a Do call sent the stored envelope after its exp
C13_Witness ==
    /\ IsSome(Authorization) /\ issued = 1
    /\ last.bearer = Authorization
    /\ last.at > Get(Get(Authorization).payload.exp)
    /\ Get(Get(Authorization).payload.iat) < last.at - 30 * 60

====
